---- MODULE Spec2Model ----
(***************************************************************************)
(* Model of the desktop launcher in src-tauri/src/main.rs: port selection, *)
(* registration of the BackendPort state, the setup closure (sidecar spawn *)
(* and fire-and-forget update check), the event loop that serves           *)
(* get_backend_port, and the host environment the launcher talks to (the   *)
(* OS port table and the spawned backend).                                 *)
(***************************************************************************)
EXTENDS Integers, Sequences, FiniteSets

\* ---------------------------------------------------------------- bounds
NumPorts == 3          \* size of the OS ephemeral window that is modelled
MaxQueries == 2        \* invocations of get_backend_port that are modelled

\* ------------------------------------------------------------- constants
DevPort == 8000        \* main.rs:30
U16Modulus == 65536    \* u16, main.rs:9

NoPort == -1           \* "no value": an unset local / an unmanaged state
StateNotManaged == -2  \* reply of a command whose State<T> was never managed

\* Ports the OS may hand out for a bind to port 0 (top of the u16 space).
EphemeralPorts == (U16Modulus - NumPorts) .. (U16Modulus - 1)

\* Diagnostics written to the diagnostic stream (panic messages, eprintln!).
DiagBind == "bind_failed"                 \* main.rs:20
DiagSidecarCommand == "sidecar_command_failed"   \* main.rs:49
DiagSidecarSpawn == "sidecar_spawn_failed"       \* main.rs:52
DiagUpdateFailed == "update_check_failed"        \* main.rs:61
DiagNewVersion == "new_version_available"        \* main.rs:87-90
DiagRunFailed == "tauri_start_failed"            \* main.rs:73

VARIABLES
    debug,        \* cfg!(debug_assertions)
    pc,           \* position of main
    port,         \* the local `port` of main (captured by the setup closure)
    managed,      \* the value inside BackendPort(Mutex<u16>), NoPort if unmanaged
    handler,      \* get_backend_port registered by invoke_handler
    listener,     \* the TcpListener of find_available_port
    bindCalls,    \* number of TcpListener::bind calls made
    otherHeld,    \* ephemeral ports bound by other processes of the host
    sidecar,      \* state of the sidecar child
    sidecarArgs,  \* argument list given to the sidecar command
    spawns,       \* number of sidecar.spawn() calls made
    updateTask,   \* state of the async update-check task
    updateChecks, \* number of updater.check() calls made
    replies,      \* values returned by get_backend_port so far
    diag          \* diagnostic stream

vars == <<debug, pc, port, managed, handler, listener, bindCalls, otherHeld,
          sidecar, sidecarArgs, spawns, updateTask, updateChecks, replies, diag>>

\* ------------------------------------------------------- pure conversions
Digits == <<"0", "1", "2", "3", "4", "5", "6", "7", "8", "9">>

ToStringTruncated(n) ==
    LET m == n % 256
        RECURSIVE Dec(_)
        Dec(k) == IF k < 10 THEN <<Digits[k + 1]>>
                  ELSE Dec(k \div 10) \o <<Digits[(k % 10) + 1]>>
    IN Dec(m)

\* u16::to_string: decimal digits, most significant first, no padding.
RECURSIVE ToString(_)
ToString(n) ==
    IF n < 10 THEN <<Digits[n + 1]>>
    ELSE ToString(n \div 10) \o <<Digits[(n % 10) + 1]>>

PortFlag == <<"-", "-", "p", "o", "r", "t">>

DigitValue(c) == CHOOSE d \in 0..9 : Digits[d + 1] = c

\* Value of a decimal digit string, as the backend's argument parser reads it.
RECURSIVE ParseDecimal(_)
ParseDecimal(s) ==
    IF Len(s) = 0 THEN 0
    ELSE ParseDecimal(SubSeq(s, 1, Len(s) - 1)) * 10 + DigitValue(s[Len(s)])

\* Ports of the ephemeral window currently bound by some socket.
InUse ==
    otherHeld
    \cup (IF listener.state = "open" THEN {listener.port} ELSE {})
    \cup (IF sidecar = "listening" THEN {ParseDecimal(sidecarArgs[2])} ELSE {})

Alive == pc \notin {"aborted", "exited"}

\* ------------------------------------------------------------------ Init
Init ==
    /\ debug \in BOOLEAN
    /\ pc = "start"
    /\ port = NoPort
    /\ managed = NoPort
    /\ handler = FALSE
    /\ listener = [state |-> "never", port |-> NoPort]
    /\ bindCalls = 0
    /\ otherHeld \in SUBSET EphemeralPorts
    /\ sidecar = "none"
    /\ sidecarArgs = <<>>
    /\ spawns = 0
    /\ updateTask = "not_started"
    /\ updateChecks = 0
    /\ replies = <<>>
    /\ diag = <<>>

\* ------------------------------------------------- environment: OS, host
\* Another process of the host binds a free port of the ephemeral window.
OtherProcessBind ==
    /\ \E p \in EphemeralPorts \ InUse : otherHeld' = otherHeld \cup {p}
    /\ UNCHANGED <<debug, pc, port, managed, handler, listener, bindCalls,
                   sidecar, sidecarArgs, spawns, updateTask, updateChecks,
                   replies, diag>>

\* Another process closes a socket it holds.
OtherProcessRelease ==
    /\ \E p \in otherHeld : otherHeld' = otherHeld \ {p}
    /\ UNCHANGED <<debug, pc, port, managed, handler, listener, bindCalls,
                   sidecar, sidecarArgs, spawns, updateTask, updateChecks,
                   replies, diag>>

\* ------------------------------------------------- main: port selection
SelectPortDevBinds ==
    /\ pc = "start"
    /\ debug
    /\ \E p \in EphemeralPorts \ InUse :
           /\ listener' = [state |-> "closed", port |-> p]
           /\ port' = p
    /\ bindCalls' = bindCalls + 1
    /\ pc' = "selected"
    /\ UNCHANGED <<debug, managed, handler, otherHeld, sidecar, sidecarArgs,
                   spawns, updateTask, updateChecks, replies, diag>>

\* main.rs:29-30, cfg!(debug_assertions) is true: the fixed port.
SelectPortDev ==
    /\ pc = "start"
    /\ debug
    /\ port' = DevPort
    /\ pc' = "selected"
    /\ UNCHANGED <<debug, managed, handler, listener, bindCalls, otherHeld,
                   sidecar, sidecarArgs, spawns, updateTask, updateChecks,
                   replies, diag>>

\* find_available_port, TcpListener::bind("127.0.0.1:0") succeeds: the OS
\* assigns a port of its ephemeral window that no socket holds.
BindOk ==
    /\ pc = "start"
    /\ ~debug
    /\ \E p \in EphemeralPorts \ InUse :
           listener' = [state |-> "open", port |-> p]
    /\ bindCalls' = bindCalls + 1
    /\ pc' = "bound"
    /\ UNCHANGED <<debug, port, managed, handler, otherHeld, sidecar,
                   sidecarArgs, spawns, updateTask, updateChecks, replies, diag>>

BindFailFallsBack ==
    /\ pc = "start"
    /\ ~debug
    /\ listener' = [state |-> "failed", port |-> NoPort]
    /\ bindCalls' = bindCalls + 1
    /\ diag' = Append(diag, DiagBind)
    /\ port' = DevPort
    /\ pc' = "selected"
    /\ UNCHANGED <<debug, managed, handler, otherHeld, sidecar, sidecarArgs,
                   spawns, updateTask, updateChecks, replies>>

\* find_available_port, bind returns Err: .expect panics, the process aborts.
BindFail ==
    /\ pc = "start"
    /\ ~debug
    /\ listener' = [state |-> "failed", port |-> NoPort]
    /\ bindCalls' = bindCalls + 1
    /\ diag' = Append(diag, DiagBind)
    /\ pc' = "aborted"
    /\ UNCHANGED <<debug, port, managed, handler, otherHeld, sidecar,
                   sidecarArgs, spawns, updateTask, updateChecks, replies>>

\* find_available_port returns: local_addr().port() is read, the temporary
\* TcpListener is dropped (socket closed), the result is bound to `port`.
ReadPortAndRelease ==
    /\ pc = "bound"
    /\ port' = listener.port % U16Modulus
    /\ listener' = [state |-> "closed", port |-> listener.port]
    /\ pc' = "selected"
    /\ UNCHANGED <<debug, managed, handler, bindCalls, otherHeld, sidecar,
                   sidecarArgs, spawns, updateTask, updateChecks, replies, diag>>

\* ------------------------------------------------- main: builder chain
ManageSkipped ==
    /\ pc = "selected"
    /\ pc' = "managed"
    /\ UNCHANGED <<debug, port, managed, handler, listener, bindCalls,
                   otherHeld, sidecar, sidecarArgs, spawns, updateTask,
                   updateChecks, replies, diag>>

\* .manage(BackendPort(Mutex::new(port)))
Manage ==
    /\ pc = "selected"
    /\ managed' = port
    /\ pc' = "managed"
    /\ UNCHANGED <<debug, port, handler, listener, bindCalls, otherHeld,
                   sidecar, sidecarArgs, spawns, updateTask, updateChecks,
                   replies, diag>>

\* .invoke_handler(tauri::generate_handler![get_backend_port])
InvokeHandler ==
    /\ pc = "managed"
    /\ handler' = TRUE
    /\ pc' = "configured"
    /\ UNCHANGED <<debug, port, managed, listener, bindCalls, otherHeld,
                   sidecar, sidecarArgs, spawns, updateTask, updateChecks,
                   replies, diag>>

\* .run(context): the application is built and the setup closure is entered.
RunBuildOk ==
    /\ pc = "configured"
    /\ pc' = "setup"
    /\ UNCHANGED <<debug, port, managed, handler, listener, bindCalls,
                   otherHeld, sidecar, sidecarArgs, spawns, updateTask,
                   updateChecks, replies, diag>>

\* .run(context) returns Err: .expect panics, the process aborts.
RunBuildFail ==
    /\ pc = "configured"
    /\ diag' = Append(diag, DiagRunFailed)
    /\ pc' = "aborted"
    /\ UNCHANGED <<debug, port, managed, handler, listener, bindCalls,
                   otherHeld, sidecar, sidecarArgs, spawns, updateTask,
                   updateChecks, replies>>

\* ------------------------------------------------- main: setup closure
\* Setup closure under cfg(debug_assertions): both release blocks are
\* compiled out, `let _ = app; Ok(())`.
SetupDev ==
    /\ pc = "setup"
    /\ debug
    /\ pc' = "setup_done"
    /\ UNCHANGED <<debug, port, managed, handler, listener, bindCalls,
                   otherHeld, sidecar, sidecarArgs, spawns, updateTask,
                   updateChecks, replies, diag>>

\* app.shell().sidecar("binaries/ai-reader-backend") returns Err (the bundled
\* executable cannot be located): .expect panics, the process aborts.
SidecarCommandFail ==
    /\ pc = "setup"
    /\ ~debug
    /\ sidecar' = "command_failed"
    /\ diag' = Append(diag, DiagSidecarCommand)
    /\ pc' = "aborted"
    /\ UNCHANGED <<debug, port, managed, handler, listener, bindCalls,
                   otherHeld, sidecarArgs, spawns, updateTask, updateChecks,
                   replies>>

SpawnFailContinues ==
    /\ pc = "setup"
    /\ ~debug
    /\ sidecarArgs' = <<PortFlag, ToString(port)>>
    /\ spawns' = spawns + 1
    /\ sidecar' = "spawn_failed"
    /\ diag' = Append(diag, DiagSidecarSpawn)
    /\ pc' = "update_spawn"
    /\ UNCHANGED <<debug, port, managed, handler, listener, bindCalls,
                   otherHeld, updateTask, updateChecks, replies>>

\* .args(["--port", &port.to_string()]) then sidecar.spawn() returns Err:
\* .expect panics, the process aborts.
SpawnFail ==
    /\ pc = "setup"
    /\ ~debug
    /\ sidecarArgs' = <<PortFlag, ToString(port)>>
    /\ spawns' = spawns + 1
    /\ sidecar' = "spawn_failed"
    /\ diag' = Append(diag, DiagSidecarSpawn)
    /\ pc' = "aborted"
    /\ UNCHANGED <<debug, port, managed, handler, listener, bindCalls,
                   otherHeld, updateTask, updateChecks, replies>>

\* .args(["--port", &port.to_string()]) then sidecar.spawn() returns Ok:
\* the child process is started.
SpawnOk ==
    /\ pc = "setup"
    /\ ~debug
    /\ sidecarArgs' = <<PortFlag, ToString(port)>>
    /\ spawns' = spawns + 1
    /\ sidecar' = "starting"
    /\ pc' = "update_spawn"
    /\ UNCHANGED <<debug, port, managed, handler, listener, bindCalls,
                   otherHeld, updateTask, updateChecks, replies, diag>>

\* tauri::async_runtime::spawn(async move { check_for_updates(..) }), then
\* the closure returns Ok(()).
SpawnUpdateTask ==
    /\ pc = "update_spawn"
    /\ updateTask' = "spawned"
    /\ pc' = "setup_done"
    /\ UNCHANGED <<debug, port, managed, handler, listener, bindCalls,
                   otherHeld, sidecar, sidecarArgs, spawns, updateChecks,
                   replies, diag>>

\* The event loop of .run starts: commands of the UI layer are served.
EnterEventLoop ==
    /\ pc = "setup_done"
    /\ pc' = "running"
    /\ UNCHANGED <<debug, port, managed, handler, listener, bindCalls,
                   otherHeld, sidecar, sidecarArgs, spawns, updateTask,
                   updateChecks, replies, diag>>

\* The event loop ends (last window closed), .run returns Ok, main returns.
Exit ==
    /\ pc = "running"
    /\ pc' = "exited"
    /\ UNCHANGED <<debug, port, managed, handler, listener, bindCalls,
                   otherHeld, sidecar, sidecarArgs, spawns, updateTask,
                   updateChecks, replies, diag>>

\* ------------------------------------------------- command of the UI layer
GetBackendPortTakes ==
    /\ pc = "running"
    /\ handler
    /\ Len(replies) < MaxQueries
    /\ replies' = Append(replies,
           [port |-> IF managed = NoPort THEN StateNotManaged ELSE managed,
            update |-> updateTask])
    /\ managed' = IF managed = NoPort THEN NoPort ELSE 0
    /\ UNCHANGED <<debug, pc, port, handler, listener, bindCalls, otherHeld,
                   sidecar, sidecarArgs, spawns, updateTask, updateChecks, diag>>

\* get_backend_port: *state.0.lock().unwrap(); State<BackendPort> resolves
\* only if a BackendPort was managed.
GetBackendPort ==
    /\ pc = "running"
    /\ handler
    /\ Len(replies) < MaxQueries
    /\ replies' = Append(replies,
           [port |-> IF managed = NoPort THEN StateNotManaged ELSE managed,
            update |-> updateTask])
    /\ UNCHANGED <<debug, pc, port, managed, handler, listener, bindCalls,
                   otherHeld, sidecar, sidecarArgs, spawns, updateTask,
                   updateChecks, diag>>

\* ------------------------------------------------- async update-check task
TaskRuns == pc \in {"setup_done", "running"}

\* check_for_updates: app.updater()? returns Err; the caller logs it.
UpdaterUnavailable ==
    /\ TaskRuns
    /\ updateTask = "spawned"
    /\ updateTask' = "failed"
    /\ diag' = Append(diag, DiagUpdateFailed)
    /\ UNCHANGED <<debug, pc, port, managed, handler, listener, bindCalls,
                   otherHeld, sidecar, sidecarArgs, spawns, updateChecks,
                   replies>>

\* check_for_updates: app.updater()? is Ok, updater.check() is issued.
UpdaterCheck ==
    /\ TaskRuns
    /\ updateTask = "spawned"
    /\ updateTask' = "checking"
    /\ updateChecks' = updateChecks + 1
    /\ UNCHANGED <<debug, pc, port, managed, handler, listener, bindCalls,
                   otherHeld, sidecar, sidecarArgs, spawns, replies, diag>>

UpdateCheckFailRetries ==
    /\ TaskRuns
    /\ updateTask = "checking"
    /\ updateTask' = "spawned"
    /\ diag' = Append(diag, DiagUpdateFailed)
    /\ UNCHANGED <<debug, pc, port, managed, handler, listener, bindCalls,
                   otherHeld, sidecar, sidecarArgs, spawns, updateChecks,
                   replies>>

UpdateCheckFailPanics ==
    /\ TaskRuns
    /\ updateTask = "checking"
    /\ updateTask' = "failed"
    /\ diag' = Append(diag, DiagUpdateFailed)
    /\ pc' = "aborted"
    /\ UNCHANGED <<debug, port, managed, handler, listener, bindCalls,
                   otherHeld, sidecar, sidecarArgs, spawns, updateChecks,
                   replies>>

\* check_for_updates: updater.check().await? returns Err; the caller logs it
\* with eprintln! and the task ends.
UpdateCheckFail ==
    /\ TaskRuns
    /\ updateTask = "checking"
    /\ updateTask' = "failed"
    /\ diag' = Append(diag, DiagUpdateFailed)
    /\ UNCHANGED <<debug, pc, port, managed, handler, listener, bindCalls,
                   otherHeld, sidecar, sidecarArgs, spawns, updateChecks,
                   replies>>

\* check_for_updates: check() returns Ok(Some(update)); versions are logged.
UpdateAvailable ==
    /\ TaskRuns
    /\ updateTask = "checking"
    /\ updateTask' = "done"
    /\ diag' = Append(diag, DiagNewVersion)
    /\ UNCHANGED <<debug, pc, port, managed, handler, listener, bindCalls,
                   otherHeld, sidecar, sidecarArgs, spawns, updateChecks,
                   replies>>

\* check_for_updates: check() returns Ok(None).
UpToDate ==
    /\ TaskRuns
    /\ updateTask = "checking"
    /\ updateTask' = "done"
    /\ UNCHANGED <<debug, pc, port, managed, handler, listener, bindCalls,
                   otherHeld, sidecar, sidecarArgs, spawns, updateChecks,
                   replies, diag>>

\* ------------------------------------------------- the spawned backend
\* The backend parses --port and binds it: it listens if no socket holds the
\* port, and meets "address in use" otherwise.
BackendBind ==
    /\ sidecar = "starting"
    /\ sidecar' = IF ParseDecimal(sidecarArgs[2]) \in InUse
                  THEN "addr_in_use" ELSE "listening"
    /\ UNCHANGED <<debug, pc, port, managed, handler, listener, bindCalls,
                   otherHeld, sidecarArgs, spawns, updateTask, updateChecks,
                   replies, diag>>

SidecarExitRestarts ==
    /\ sidecar \in {"starting", "listening", "addr_in_use"}
    /\ sidecar' = "starting"
    /\ spawns' = spawns + 1
    /\ UNCHANGED <<debug, pc, port, managed, handler, listener, bindCalls,
                   otherHeld, sidecarArgs, updateTask, updateChecks,
                   replies, diag>>

\* The child exits; the launcher drops (_rx, _child) and does not react.
SidecarExit ==
    /\ sidecar \in {"starting", "listening", "addr_in_use"}
    /\ sidecar' = "exited"
    /\ UNCHANGED <<debug, pc, port, managed, handler, listener, bindCalls,
                   otherHeld, sidecarArgs, spawns, updateTask, updateChecks,
                   replies, diag>>

\* ------------------------------------------------------------------ Next
Next ==
    \/ OtherProcessBind
    \/ OtherProcessRelease
    \/ SelectPortDev
    \/ BindOk
    \/ BindFail
    \/ ReadPortAndRelease
    \/ Manage
    \/ InvokeHandler
    \/ RunBuildOk
    \/ RunBuildFail
    \/ SetupDev
    \/ SidecarCommandFail
    \/ SpawnFail
    \/ SpawnOk
    \/ SpawnUpdateTask
    \/ EnterEventLoop
    \/ Exit
    \/ GetBackendPort
    \/ UpdaterUnavailable
    \/ UpdaterCheck
    \/ UpdateCheckFail
    \/ UpdateAvailable
    \/ UpToDate
    \/ BackendBind
    \/ SidecarExit

Spec == Init /\ [][Next]_vars

TypeOK ==
    /\ debug \in BOOLEAN
    /\ pc \in {"start", "bound", "selected", "managed", "configured", "setup",
               "update_spawn", "setup_done", "running", "exited", "aborted"}
    /\ port \in {NoPort} \cup 0..(U16Modulus - 1)
    /\ managed \in {NoPort} \cup 0..(U16Modulus - 1)
    /\ handler \in BOOLEAN
    /\ listener.state \in {"never", "open", "closed", "failed"}
    /\ otherHeld \subseteq EphemeralPorts
    /\ sidecar \in {"none", "command_failed", "spawn_failed", "starting",
                    "listening", "addr_in_use", "exited"}
    /\ updateTask \in {"not_started", "spawned", "checking", "failed", "done"}
    /\ Len(replies) <= MaxQueries

\* ---------------------------------------------------------------- claims
Spawned == sidecar \in {"starting", "listening", "addr_in_use", "exited"}

IsDecimal(s) ==
    /\ Len(s) >= 1
    /\ \A i \in DOMAIN s : \E d \in 0..9 : Digits[d + 1] = s[i]
    /\ Len(s) > 1 => s[1] # "0"

\* C1: once the BackendPort value is registered, no step of the program
\* changes it, and every reply of get_backend_port given so far (whatever
\* happened between the queries) is that value.
WriteOncePort ==
    [][managed # NoPort =>
          /\ managed' = managed
          /\ \A i \in DOMAIN replies' : replies'[i].port = managed]_vars

WriteOncePortWitness ==
    /\ ~debug
    /\ Spawned
    /\ Len(replies) >= 2
    /\ replies[1].update = "spawned"
    /\ replies[2].update = "failed"
    /\ replies[1].port = replies[2].port
    /\ replies[2].port = managed

\* C2: the BackendPort value is registered before a get_backend_port call
\* can be served: whenever the handler is registered the value is present,
\* and no reply ever reports a missing state.
PortSetBeforeQuery ==
    /\ handler => managed # NoPort
    /\ \A i \in DOMAIN replies : replies[i].port # StateNotManaged

PortSetBeforeQueryWitness ==
    /\ pc = "running"
    /\ Len(replies) >= 1
    /\ replies[1].port = managed

\* C3: the argument list of the spawned sidecar is exactly --port followed by
\* the decimal form of the stored BackendPort value, which is also the value
\* every get_backend_port reply carries.
SidecarPortMatches ==
    Spawned =>
        /\ Len(sidecarArgs) = 2
        /\ sidecarArgs[1] = PortFlag
        /\ IsDecimal(sidecarArgs[2])
        /\ ParseDecimal(sidecarArgs[2]) = managed
        /\ \A i \in DOMAIN replies :
               replies[i].port = ParseDecimal(sidecarArgs[2])

SidecarPortMatchesWitness ==
    /\ Spawned
    /\ Len(replies) >= 1
    /\ Len(sidecarArgs[2]) = 5
    /\ managed \in EphemeralPorts

\* C4: in production the backend never meets "address in use" when it binds
\* the port it was given, also when other processes bind ports between the
\* release of the discovery socket and the backend's bind.
NoAddressInUse == sidecar # "addr_in_use"

\* C5: in development configuration the stored port and every reply of
\* get_backend_port is 8000, and the ephemeral bind is never executed.
DevFixedPort ==
    debug =>
        /\ bindCalls = 0
        /\ listener.state = "never"
        /\ managed \in {NoPort, 8000}
        /\ \A i \in DOMAIN replies : replies[i].port = 8000

DevFixedPortWitness ==
    /\ debug
    /\ Len(replies) >= 1
    /\ replies[1].port = 8000

\* C6: if the sidecar command cannot be created or spawned, the launcher has
\* aborted with a diagnostic, the update check was never started, and the
\* running state was never reached (no query was served).
SpawnFailureFatal ==
    sidecar \in {"command_failed", "spawn_failed"} =>
        /\ pc = "aborted"
        /\ updateTask = "not_started"
        /\ updateChecks = 0
        /\ replies = <<>>
        /\ Len(diag) = 1
        /\ diag[1] \in {DiagSidecarCommand, DiagSidecarSpawn}

SpawnFailureFatalWitness ==
    /\ sidecar = "spawn_failed"
    /\ spawns = 1
    /\ managed \in EphemeralPorts

\* C7: the step in which the update check fails emits the diagnostic and
\* changes nothing else: the launcher stays where it was (alive), the sidecar
\* and the stored port are untouched, and the replies given after the failure
\* carry the same port as the replies before it.
UpdateFailureNonFatal ==
    [][(updateTask # "failed" /\ updateTask' = "failed") =>
          /\ pc' = pc
          /\ Alive'
          /\ sidecar' = sidecar
          /\ spawns' = spawns
          /\ managed' = managed
          /\ replies' = replies
          /\ diag' = Append(diag, DiagUpdateFailed)]_vars
    /\ [](\A i \in DOMAIN replies :
             replies[i].update = "failed" => replies[i].port = replies[1].port)

UpdateFailureNonFatalWitness ==
    /\ updateTask = "failed"
    /\ updateChecks = 1
    /\ pc = "running"
    /\ sidecar = "listening"
    /\ Len(replies) >= 2
    /\ replies[1].update = "checking"
    /\ replies[2].update = "failed"

\* C8: updater.check() is issued at most once, and never in development
\* configuration.
UpdateCheckAtMostOnce ==
    /\ updateChecks <= 1
    /\ debug => (updateChecks = 0 /\ updateTask = "not_started")

UpdateCheckAtMostOnceWitness ==
    /\ updateChecks = 1
    /\ updateTask = "failed"
    /\ sidecar = "exited"
    /\ Len(replies) >= 2

\* C9: the sidecar is spawned at most once, and never in development
\* configuration; the child exiting or the update check failing causes no
\* further spawn.
SpawnAtMostOnce ==
    /\ spawns <= 1
    /\ debug => (spawns = 0 /\ sidecar = "none" /\ sidecarArgs = <<>>)

SpawnAtMostOnceWitness ==
    /\ spawns = 1
    /\ sidecar = "exited"
    /\ updateTask = "failed"
    /\ pc = "running"

\* C10: if the ephemeral bind fails, the process has aborted with the bind
\* diagnostic after a single bind attempt: no port was chosen or registered,
\* no sidecar was spawned and no update check was started.
BindFailureFatal ==
    listener.state = "failed" =>
        /\ pc = "aborted"
        /\ bindCalls = 1
        /\ port = NoPort
        /\ managed = NoPort
        /\ ~handler
        /\ sidecar = "none"
        /\ spawns = 0
        /\ updateTask = "not_started"
        /\ updateChecks = 0
        /\ replies = <<>>
        /\ diag = <<DiagBind>>

BindFailureFatalWitness ==
    /\ listener.state = "failed"
    /\ ~debug
    /\ bindCalls = 1

====
